---------------------------- MODULE Spec2Model ----------------------------
(***************************************************************************)
(* Installer Builder: the in-memory project store (MemStorage), the        *)
(* archive build pipeline (generateInstaller / createDemoInstallerFile)    *)
(* and the registry of generated installers, as a state machine.           *)
(*                                                                         *)
(* JavaScript runs every synchronous stretch of code to completion, so     *)
(* each storage method without an await is one action; generateInstaller   *)
(* is split at its await into the synchronous start, the steps of the      *)
(* output stream, and the continuation that registers the artifact.        *)
(***************************************************************************)
EXTENDS Integers, Sequences, FiniteSets, TLC

VARIABLES
    projects,             \* MemStorage.projects: Map<number, InstallerProject>
    currentId,            \* MemStorage.currentId
    generatedInstallers,  \* MemStorage.generatedInstallers: Map<fileId, {filePath, projectId}>
    disk,                 \* files under the output directory: path -> sequence of chunks
    builds,               \* the calls of generateInstaller that passed the project lookup
    crashed,              \* the process was terminated by an uncaught exception
    platform,             \* process.platform of the build host
    created,              \* history: one entry per createInstallerProject call
    last,                 \* the last storage call: its name, arguments and return value
    inflight,             \* requests received whose route handler has not run yet
    applied,              \* history: the mutating requests in the order their handlers ran
    client                \* the builder page: its React state and its requests

vars == <<projects, currentId, generatedInstallers, disk, builds, crashed,
          platform, created, last, inflight, applied, client>>

---------------------------------------------------------------------------
(* Bounds of the model *)

MaxCreates == 2      \* calls of createInstallerProject
MaxBuilds == 2       \* calls of generateInstaller that pass the project lookup
MaxTime == 1         \* Date.now() returns a value in 1..MaxTime
MaxRand == 1         \* the random suffix is one of 0..MaxRand
MaxRequests == 4     \* requests received where requests are in flight
MaxFlows == 2        \* saves and builds started in the builder page

---------------------------------------------------------------------------
(* Values *)

\* JavaScript's undefined, as returned by Map.get and by the storage methods.
Undefined == [undefined |-> TRUE]

\* Project names are sequences of characters.
SafeChars == {"a", "b", "_", "-", "0"}
Names == {<<"a", " ">>, <<"a", "_">>}

\* File nodes (FileItem).
F1 == [id |-> "f1", path |-> "a.txt", size |-> 1024]
F2 == [id |-> "f2", path |-> "b.txt", size |-> 0]
\* A node that carries the identifier of F1 and differs from it.
F1b == [id |-> "f1", path |-> "c.txt", size |-> 5]
\* A directory whose only child carries the identifier of F2.
D3 == [id |-> "d3", path |-> "dir", size |-> 0, isDirectory |-> TRUE, children |-> <<F2>>]

\* Request bodies of POST /api/projects after insertInstallerProjectSchema
\* (the schema omits id, and zod strips unknown keys).
StoreInserts ==
    [name : Names, version : {"1.0"}, publisher : {"Acme"}, description : {""},
     defaultInstallPath : {"/opt/demo"}, compressionLevel : {6}, files : {<<F1>>}]

\* Request bodies of PATCH /api/projects/:id: any partial object, passed
\* through unvalidated, so it may carry an id.
StoreUpdates ==
    { <<>>,
      [name |-> <<"a", "_">>],
      [version |-> "2.0"],
      [id |-> 2],
      [name |-> <<"a", " ">>, version |-> "1.0"] }
StoreFileLists == {<<F2>>}
StoreFileIds == {"f2"}

\* The input sets used where builds are in flight.
BuildInserts ==
    { [name |-> <<"a", " ">>, version |-> "1.0", publisher |-> "Acme", description |-> "",
       defaultInstallPath |-> "/opt/demo", compressionLevel |-> 6, files |-> <<F1>>] }
BuildUpdates == {[files |-> <<>>]}
BuildFileLists == {<<F1>>}
BuildFileIds == {"f1"}

\* The input set used where the calls of the build and of the lookup are traced.
CallInserts ==
    { [name |-> <<"a", " ">>, version |-> "1.0", publisher |-> "Acme", description |-> "",
       defaultInstallPath |-> "/opt/demo", compressionLevel |-> 6, files |-> <<F1>>] }

\* The input sets used where the file operations are traced call by call:
\* request bodies of POST /api/projects/:id/files after z.array(fileSchema),
\* which does not ask the identifiers of a list to be distinct.
FilesInserts ==
    { [name |-> <<"a", " ">>, version |-> "1.0", publisher |-> "Acme", description |-> "",
       defaultInstallPath |-> "/opt/demo", compressionLevel |-> 6, files |-> <<F1>>] }
FilesFileLists == {<<F1b, F2>>, <<F2, F2>>, <<D3>>}
FilesFileIds == {"f1", "f2"}
\* The file requests address the first project and an id that is never handed out.
FilesProjectIds == {1, MaxCreates + 1}

\* The input set used where the build is looked at for its inputs: bodies
\* that differ in name, version, compression level, files and target
\* platforms. The insert schema takes any string as a version, any integer
\* or nothing as a compression level.
InputBase ==
    [name |-> <<"a", " ">>, version |-> "1.0", publisher |-> "Acme", description |-> "",
     defaultInstallPath |-> "/opt/demo", compressionLevel |-> 6, files |-> <<F1>>,
     targetPlatforms |-> <<"windows">>]
InputUnset ==
    [f \in (DOMAIN InputBase) \ {"compressionLevel"} |->
        IF f = "version" THEN "/../1"
        ELSE IF f = "files" THEN <<F1, D3>>
        ELSE InputBase[f]]
InputInserts ==
    { InputBase,
      [InputBase EXCEPT !.name = <<"/", ".">>, !.compressionLevel = 0,
                        !.files = <<D3>>, !.targetPlatforms = <<"linux">>],
      [InputBase EXCEPT !.version = "/1", !.compressionLevel = 0 - 1],
      [InputBase EXCEPT !.version = "/../../1", !.compressionLevel = 10, !.files = <<>>,
                        !.targetPlatforms = <<"macos", "linux">>],
      [InputBase EXCEPT !.compressionLevel = 9, !.targetPlatforms = <<"linux">>],
      InputUnset }
\* The builds address the first project and an id that is never handed out.
InputProjectIds == {1, MaxCreates + 1}

ProjectIds == 1..(MaxCreates + 1)

---------------------------------------------------------------------------
(* Helpers of the store *)

\* Map.set(k, v)
MapSet(m, k, v) == [x \in (DOMAIN m) \cup {k} |-> IF x = k THEN v ELSE m[x]]

\* Map.delete(k)
MapDelete(m, k) == [x \in (DOMAIN m) \ {k} |-> m[x]]

\* Map.get(k)
MapGet(m, k) == IF k \in DOMAIN m THEN m[k] ELSE Undefined

\* The id a create hands out when it is computed from the size of the map.
NextIdFromSize == Cardinality(DOMAIN projects) + 1

\* const id = this.currentId++
NextId == currentId

\* { ...project, id }
NewProject(project, id) ==
    [f \in (DOMAIN project) \cup {"id"} |-> IF f = "id" THEN id ELSE project[f]]

\* A merge that resets every field the partial object leaves out.
DefaultProject ==
    [id |-> 0, name |-> <<>>, version |-> "", publisher |-> "", description |-> "",
     defaultInstallPath |-> "", compressionLevel |-> 6, files |-> <<>>]
MergeReplacing(existingProject, projectUpdates) ==
    [f \in (DOMAIN existingProject) \cup (DOMAIN projectUpdates) |->
        IF f \in DOMAIN projectUpdates THEN projectUpdates[f]
        ELSE IF f = "id" THEN existingProject[f] ELSE DefaultProject[f]]

\* { ...existingProject, ...projectUpdates }
MergeProject(existingProject, projectUpdates) ==
    [f \in (DOMAIN existingProject) \cup (DOMAIN projectUpdates) |->
        IF f \in DOMAIN projectUpdates THEN projectUpdates[f] ELSE existingProject[f]]

\* The top-level identifiers of a file list.
ExistingFileIds(files) == {files[i].id : i \in 1..Len(files)}

\* A merge that appends every incoming node.
UpdatedFilesAppendAll(existing, files) == existing \o files

\* A merge in which an incoming node replaces the stored node of the same id.
UpdatedFilesIncomingWins(existing, files) ==
    LET ids == ExistingFileIds(existing)
        IsNew(file) == file.id \notin ids
        Incoming(node) ==
            IF \E j \in 1..Len(files) : files[j].id = node.id
            THEN files[CHOOSE j \in 1..Len(files) : files[j].id = node.id]
            ELSE node
    IN  [i \in 1..Len(existing) |-> Incoming(existing[i])] \o SelectSeq(files, IsNew)

\* [...project.files, ...files.filter(file => !existingFileIds.has(file.id))]
UpdatedFilesAfterAdd(existing, files) ==
    LET ids == ExistingFileIds(existing)
        IsNew(file) == file.id \notin ids
    IN  existing \o SelectSeq(files, IsNew)

\* A removal that also prunes the children of the nodes it keeps.
UpdatedFilesAfterRemoveDeep(existing, fileId) ==
    LET Other(file) == file.id # fileId
        Pruned(node) ==
            IF "children" \in DOMAIN node
            THEN [node EXCEPT !.children = SelectSeq(@, Other)]
            ELSE node
        kept == SelectSeq(existing, Other)
    IN  [i \in 1..Len(kept) |-> Pruned(kept[i])]

\* project.files.filter(file => file.id !== fileId)
UpdatedFilesAfterRemove(existing, fileId) ==
    LET Other(file) == file.id # fileId
    IN  SelectSeq(existing, Other)

\* The record of a storage call; seq flips on every call. The record is kept
\* only in the specifications that start with call tracing on; where it starts
\* with a prev field, it also keeps the call before.
NoCall == [op |-> "none", id |-> 0, arg |-> <<>>, ret |-> Undefined, seq |-> 0]
Untraced == [op |-> "untraced", id |-> 0, arg |-> <<>>, ret |-> Undefined, seq |-> 0]
NoCallPair ==
    [op |-> "none", id |-> 0, arg |-> <<>>, ret |-> Undefined, seq |-> 0,
     prev |-> [op |-> "none", id |-> 0, arg |-> <<>>, ret |-> Undefined]]
Call(op, id, arg, ret) ==
    IF last.op = "untraced" THEN last
    ELSE IF "prev" \in DOMAIN last
    THEN [op |-> op, id |-> id, arg |-> arg, ret |-> ret, seq |-> 1 - last.seq,
          prev |-> [op |-> last.op, id |-> last.id, arg |-> last.arg, ret |-> last.ret]]
    ELSE [op |-> op, id |-> id, arg |-> arg, ret |-> ret, seq |-> 1 - last.seq]

StoreUnchanged == UNCHANGED <<projects, currentId, created>>
BuildUnchanged == UNCHANGED <<generatedInstallers, disk, builds, crashed, platform>>

---------------------------------------------------------------------------
(* The project store *)

CreateInstallerProject(project) ==
    /\ ~crashed
    /\ Len(created) < MaxCreates
    /\ LET id == NextId
           newProject == NewProject(project, id)
       IN  /\ currentId' = currentId + 1
           /\ projects' = MapSet(projects, id, newProject)
           /\ created' = Append(created, [id |-> id, live |-> DOMAIN projects])
           /\ last' = Call("createInstallerProject", id, project, newProject)
    /\ BuildUnchanged

\* An update that creates the record when the id is unknown.
UpdateInstallerProjectUpsert(id, projectUpdates) ==
    /\ ~crashed
    /\ LET existingProject ==
               IF id \in DOMAIN projects THEN projects[id]
               ELSE [DefaultProject EXCEPT !.id = id]
           updatedProject == MergeProject(existingProject, projectUpdates)
       IN  /\ projects' = MapSet(projects, id, updatedProject)
           /\ last' = Call("updateInstallerProject", id, projectUpdates, updatedProject)
    /\ UNCHANGED <<currentId, created>>
    /\ BuildUnchanged

UpdateInstallerProject(id, projectUpdates) ==
    /\ ~crashed
    /\ IF id \notin DOMAIN projects
       THEN /\ last' = Call("updateInstallerProject", id, projectUpdates, Undefined)
            /\ UNCHANGED projects
       ELSE LET updatedProject == MergeProject(projects[id], projectUpdates)
            IN  /\ projects' = MapSet(projects, id, updatedProject)
                /\ last' = Call("updateInstallerProject", id, projectUpdates, updatedProject)
    /\ UNCHANGED <<currentId, created>>
    /\ BuildUnchanged

\* A delete that reports success whatever the map held.
DeleteInstallerProjectAlwaysTrue(id) ==
    /\ ~crashed
    /\ projects' = MapDelete(projects, id)
    /\ last' = Call("deleteInstallerProject", id, <<>>, [deleted |-> TRUE])
    /\ UNCHANGED <<currentId, created>>
    /\ BuildUnchanged

DeleteInstallerProject(id) ==
    /\ ~crashed
    /\ projects' = MapDelete(projects, id)
    /\ last' = Call("deleteInstallerProject", id, <<>>, [deleted |-> id \in DOMAIN projects])
    /\ UNCHANGED <<currentId, created>>
    /\ BuildUnchanged

AddFilesToProject(projectId, files) ==
    /\ ~crashed
    /\ IF projectId \notin DOMAIN projects
       THEN /\ last' = Call("addFilesToProject", projectId, files, Undefined)
            /\ UNCHANGED projects
       ELSE LET project == projects[projectId]
                updatedProject ==
                    [project EXCEPT !.files = UpdatedFilesAfterAdd(project.files, files)]
            IN  /\ projects' = MapSet(projects, projectId, updatedProject)
                /\ last' = Call("addFilesToProject", projectId, files, updatedProject)
    /\ UNCHANGED <<currentId, created>>
    /\ BuildUnchanged

RemoveFileFromProject(projectId, fileId) ==
    /\ ~crashed
    /\ IF projectId \notin DOMAIN projects
       THEN /\ last' = Call("removeFileFromProject", projectId, <<fileId>>, Undefined)
            /\ UNCHANGED projects
       ELSE LET project == projects[projectId]
                updatedProject ==
                    [project EXCEPT !.files = UpdatedFilesAfterRemove(project.files, fileId)]
            IN  /\ projects' = MapSet(projects, projectId, updatedProject)
                /\ last' = Call("removeFileFromProject", projectId, <<fileId>>, updatedProject)
    /\ UNCHANGED <<currentId, created>>
    /\ BuildUnchanged

---------------------------------------------------------------------------
(* The build: generateInstaller and createDemoInstallerFile *)

\* this.outputDir = path.join(os.tmpdir(), 'installer-builder'), as the
\* sequence of its segments below the root.
OutputDir == <<<<"tmp">>, <<"installer-builder">>>>

\* The directories that exist: the constructor creates the output directory
\* and what leads to it (mkdirSync, recursive); nothing else creates one.
ExistingDirs == {SubSeq(OutputDir, 1, k) : k \in 0..Len(OutputDir)}

\* A base name that drops the characters it does not keep.
SafeProjectNameStripping(name) == SelectSeq(name, LAMBDA c : c \in SafeChars)

\* project.name.replace(/[^a-zA-Z0-9-_]/g, '_')
SafeProjectName(name) ==
    [i \in 1..Len(name) |-> IF name[i] \in SafeChars THEN name[i] ELSE "_"]

\* '.exe' by default, '.dmg' on darwin, '.run' on linux
Extension ==
    IF platform = "darwin" THEN ".dmg"
    ELSE IF platform = "linux" THEN ".run"
    ELSE ".exe"

\* `${safeProjectName}-${project.version}-installer${extension}`
FileName(project) ==
    [base |-> SafeProjectName(project.name), version |-> project.version,
     suffix |-> "installer", ext |-> Extension]

\* The characters of a version string.
VersionChars(version) ==
    CASE version = "1.0" -> <<"1", ".", "0">>
      [] version = "2.0" -> <<"2", ".", "0">>
      [] version = "/1" -> <<"/", "1">>
      [] version = "/../1" -> <<"/", ".", ".", "/", "1">>
      [] version = "/../../1" -> <<"/", ".", ".", "/", ".", ".", "/", "1">>
      [] version = "" -> <<>>

\* The characters of the file name, the fixed parts as one token each.
FileNameChars(fileName) ==
    fileName.base \o <<"-">> \o VersionChars(fileName.version)
        \o <<"-", fileName.suffix, fileName.ext>>

\* A relative path cut at its separators.
RECURSIVE SplitPath(_, _)
SplitPath(chars, segment) ==
    IF chars = <<>> THEN <<segment>>
    ELSE IF Head(chars) = "/" THEN <<segment>> \o SplitPath(Tail(chars), <<>>)
    ELSE SplitPath(Tail(chars), Append(segment, Head(chars)))

\* path.normalize on the segments of an absolute path: empty and "."
\* segments go, ".." takes the segment before it or stays at the root.
RECURSIVE NormalizePath(_, _)
NormalizePath(segments, done) ==
    IF segments = <<>> THEN done
    ELSE LET segment == Head(segments)
         IN  IF segment = <<>> \/ segment = <<".">>
             THEN NormalizePath(Tail(segments), done)
             ELSE IF segment = <<".", ".">>
             THEN NormalizePath(Tail(segments),
                                IF done = <<>> THEN done ELSE SubSeq(done, 1, Len(done) - 1))
             ELSE NormalizePath(Tail(segments), Append(done, segment))

\* path.join(dir, name)
PathJoin(dir, chars) == NormalizePath(dir \o SplitPath(chars, <<>>), <<>>)

\* path.dirname and path.basename of a normalized path
Dirname(path) == SubSeq(path, 1, Len(path) - 1)
Basename(path) == path[Len(path)]

\* path.join(this.outputDir, fileName); fileId is not part of the path
FilePath(fileName, fileId) == PathJoin(OutputDir, FileNameChars(fileName))

\* `${Date.now()}-${Math.random().toString(36).substring(2, 15)}`
MintFileId(now, rand) == <<now, rand>>

Times == 1..MaxTime
Rands == 0..MaxRand
AllFileIds == {MintFileId(t, r) : t \in Times, r \in Rands}

\* floor(log(bytes) / log(1024)) for bytes >= 1
RECURSIVE Log1024(_)
Log1024(bytes) == IF bytes < 1024 THEN 0 ELSE 1 + Log1024(bytes \div 1024)

RECURSIVE Pow1024(_)
Pow1024(i) == IF i = 0 THEN 1 ELSE 1024 * Pow1024(i - 1)

Sizes == <<"Bytes", "KB", "MB", "GB", "TB">>

\* formatFileSize: the value in hundredths (toFixed(2)) and the unit
FormatFileSize(bytes) ==
    IF bytes = 0 THEN [hundredths |-> 0, unit |-> "Bytes"]
    ELSE LET i == Log1024(bytes)
             k == Pow1024(i)
         IN  [hundredths |-> (bytes * 100 + k \div 2) \div k, unit |-> Sizes[i + 1]]

PlatformName ==
    IF platform = "darwin" THEN "macOS"
    ELSE IF platform = "linux" THEN "Linux"
    ELSE "Windows"

ScriptFlavor ==
    IF platform = "darwin" \/ platform = "linux" THEN "bash" ELSE "batch"

InstallScript(project) ==
    [flavor |-> ScriptFlavor, banner |-> PlatformName, name |-> project.name,
     version |-> project.version, installPath |-> project.defaultInstallPath]

UninstallScript(project) ==
    [flavor |-> ScriptFlavor, banner |-> PlatformName, name |-> project.name,
     installPath |-> project.defaultInstallPath]

Readme(project) ==
    [name |-> project.name, version |-> project.version,
     publisher |-> project.publisher, platform |-> PlatformName,
     description |-> IF project.description = "" THEN "No description provided."
                     ELSE project.description,
     installPath |-> project.defaultInstallPath,
     files |-> [i \in 1..Len(project.files) |->
                   [path |-> project.files[i].path,
                    size |-> FormatFileSize(project.files[i].size)]]]

\* An archive that leaves the readme out when there is no file to list.
ArchiveMembersSkippingEmptyReadme(project) ==
    LET scripts ==
            << [name |-> IF platform = "win32" THEN "install.bat" ELSE "install.sh",
                mode |-> IF platform = "win32" THEN 0 ELSE 493,
                body |-> InstallScript(project)],
               [name |-> IF platform = "win32" THEN "uninstall.bat" ELSE "uninstall.sh",
                mode |-> IF platform = "win32" THEN 0 ELSE 493,
                body |-> UninstallScript(project)],
               [name |-> "installer.info", mode |-> 0,
                body |-> [text |-> "This is a demo installer file."]],
               [name |-> "project.json", mode |-> 0, body |-> [json |-> project]] >>
    IN  IF Len(project.files) = 0 THEN scripts
        ELSE <<[name |-> "README.txt", mode |-> 0, body |-> Readme(project)]>> \o scripts

\* The members appended to the archive, in order.
ArchiveMembers(project) ==
    << [name |-> "README.txt", mode |-> 0, body |-> Readme(project)],
       [name |-> IF platform = "win32" THEN "install.bat" ELSE "install.sh",
        mode |-> IF platform = "win32" THEN 0 ELSE 493,
        body |-> InstallScript(project)],
       [name |-> IF platform = "win32" THEN "uninstall.bat" ELSE "uninstall.sh",
        mode |-> IF platform = "win32" THEN 0 ELSE 493,
        body |-> UninstallScript(project)],
       [name |-> "installer.info", mode |-> 0,
        body |-> [text |-> "This is a demo installer file."]],
       [name |-> "project.json", mode |-> 0, body |-> [json |-> project]] >>

\* zlib: { level: project.compressionLevel || 6 }; a project created without
\* the field has no compressionLevel (undefined).
ZlibLevel(project) ==
    IF "compressionLevel" \notin DOMAIN project THEN 6
    ELSE IF project.compressionLevel = 0 THEN 6
    ELSE project.compressionLevel

Pending == [pending |-> TRUE]
NotFoundResult == [success |-> FALSE, error |-> "Project not found"]
FailedResult == [success |-> FALSE, error |-> "Failed to generate installer file"]
SuccessResult(fileName, fileId) == [success |-> TRUE, filePath |-> fileName, fileId |-> fileId]

\* The archiver's output reaches the output stream in two writes: the readme
\* and the scripts, then the rest.
Chunks(members) == <<SubSeq(members, 1, 3), SubSeq(members, 4, Len(members))>>

Hole == <<[name |-> "", mode |-> 0, body |-> [hole |-> TRUE]]>>

\* A write of one chunk at the stream's own offset: past the end of the file
\* it leaves a hole, inside the file it overwrites.
WriteAt(data, pos, chunk) ==
    [i \in 1..(IF pos > Len(data) THEN pos ELSE Len(data)) |->
        IF i = pos THEN chunk
        ELSE IF i <= Len(data) THEN data[i] ELSE Hole]

\* A member rendered from the store's record at the time of the write.
ChunkFromStore(b, k) ==
    IF builds[b].projectId \in DOMAIN projects
    THEN Chunks(ArchiveMembers(projects[builds[b].projectId]))[k]
    ELSE Chunks(builds[b].queue)[k]

\* The k-th chunk the archiver hands to the output stream: every member was
\* rendered and appended synchronously when the build started.
ChunkToWrite(b, k) == Chunks(builds[b].queue)[k]

\* A registry that holds the newest artifact only.
RegisterReplacing(fileId, filePath, projectId) ==
    [x \in {fileId} |-> [filePath |-> filePath, projectId |-> projectId]]

\* this.generatedInstallers.set(fileId, { filePath, projectId })
Register(fileId, filePath, projectId) ==
    MapSet(generatedInstallers, fileId, [filePath |-> filePath, projectId |-> projectId])

\* A lookup that trusts the registry.
InstallerFilePathNoCheck(fileId) ==
    IF fileId \notin DOMAIN generatedInstallers THEN Undefined
    ELSE generatedInstallers[fileId].filePath

\* The value getInstallerFilePath returns.
InstallerFilePath(fileId) ==
    IF fileId \notin DOMAIN generatedInstallers THEN Undefined
    ELSE IF generatedInstallers[fileId].filePath \notin DOMAIN disk THEN Undefined
    ELSE generatedInstallers[fileId].filePath

Running(b) == builds[b].pc \in {"open", "writing"}

\* A build that prints the artifact id into the readme.
StartedBuildStamped(projectId, now, rand) ==
    LET project == projects[projectId]
        fileId == MintFileId(now, rand)
        fileName == FileName(project)
        members == ArchiveMembers(project)
        stamped == [name |-> "README.txt", mode |-> 0,
                    body |-> [readme |-> Readme(project), build |-> fileId]]
    IN  [projectId |-> projectId, project |-> project, invoked |-> project,
         fileId |-> fileId, fileName |-> fileName,
         filePath |-> FilePath(fileName, fileId),
         level |-> ZlibLevel(project),
         queue |-> <<stamped>> \o SubSeq(members, 2, Len(members)),
         ino |-> 0, written |-> 0, wrote |-> <<>>,
         pc |-> "open", result |-> Pending]

\* The build record after the synchronous part of generateInstaller.
StartedBuild(projectId, now, rand) ==
    LET project == projects[projectId]
        fileId == MintFileId(now, rand)
        fileName == FileName(project)
    IN  [projectId |-> projectId, project |-> project, invoked |-> project,
         fileId |-> fileId, fileName |-> fileName,
         filePath |-> FilePath(fileName, fileId),
         level |-> ZlibLevel(project), queue |-> ArchiveMembers(project),
         ino |-> 0, written |-> 0, wrote |-> <<>>,
         pc |-> "open", result |-> Pending]

\* A start that goes on without the project.
StartMissing(projectId, now, rand) ==
    /\ disk' = MapSet(disk, Append(OutputDir, <<"-", "installer">>), [ino |-> 0, data |-> <<>>])
    /\ last' = Call("generateInstaller", projectId, <<>>, FailedResult)
    /\ UNCHANGED <<builds, generatedInstallers>>

\* if (!project) return { success: false, error: "Project not found" }
ProjectMissing(projectId, now, rand) ==
    /\ last' = Call("generateInstaller", projectId, <<>>, NotFoundResult)
    /\ UNCHANGED <<builds, disk, generatedInstallers>>

GenerateInstaller(projectId, now, rand) ==
    /\ ~crashed
    /\ IF projectId \notin DOMAIN projects
       THEN ProjectMissing(projectId, now, rand)
       ELSE /\ Len(builds) < MaxBuilds
            /\ builds' = Append(builds, StartedBuild(projectId, now, rand))
            /\ last' = Call("generateInstaller", projectId, <<>>, Pending)
            /\ UNCHANGED <<disk, generatedInstallers>>
    /\ StoreUnchanged
    /\ UNCHANGED <<crashed, platform>>

\* fs.createWriteStream(filePath) opens with flags 'w': the file is created,
\* or truncated when it exists. Where the directory of the path does not
\* exist the open fails, which is the stream's 'error' (OutputError).
StreamOpen(b) ==
    /\ ~crashed
    /\ builds[b].pc = "open"
    /\ Dirname(builds[b].filePath) \in ExistingDirs
    /\ LET path == builds[b].filePath
           ino == IF path \in DOMAIN disk THEN disk[path].ino ELSE b
       IN  /\ disk' = MapSet(disk, path, [ino |-> ino, data |-> <<>>])
           /\ builds' = [builds EXCEPT ![b].pc = "writing", ![b].ino = ino]
    /\ StoreUnchanged
    /\ UNCHANGED <<generatedInstallers, crashed, platform, last>>

\* archive.pipe(output): one member reaches the file.
StreamWrite(b) ==
    /\ ~crashed
    /\ builds[b].pc = "writing"
    /\ builds[b].written < Len(Chunks(builds[b].queue))
    /\ LET path == builds[b].filePath
           k == builds[b].written + 1
           chunk == ChunkToWrite(b, k)
       IN  /\ disk' = IF path \in DOMAIN disk /\ disk[path].ino = builds[b].ino
                      THEN MapSet(disk, path,
                                  [ino |-> builds[b].ino,
                                   data |-> WriteAt(disk[path].data, k, chunk)])
                      ELSE disk
           /\ builds' = [builds EXCEPT ![b].written = k,
                                       ![b].wrote = Append(@, chunk)]
    /\ StoreUnchanged
    /\ UNCHANGED <<generatedInstallers, crashed, platform, last>>

\* output.on('close', resolve), then the rest of generateInstaller.
StreamClose(b) ==
    /\ ~crashed
    /\ builds[b].pc = "writing"
    /\ builds[b].written = Len(Chunks(builds[b].queue))
    /\ generatedInstallers' =
           Register(builds[b].fileId, builds[b].filePath, builds[b].projectId)
    /\ builds' = [builds EXCEPT ![b].pc = "done",
                                ![b].result = SuccessResult(builds[b].fileName, builds[b].fileId)]
    /\ last' = Call("generateInstaller.return", builds[b].projectId, <<>>,
                    SuccessResult(builds[b].fileName, builds[b].fileId))
    /\ StoreUnchanged
    /\ UNCHANGED <<disk, crashed, platform>>

\* archive.on('error', reject), then the catch block of generateInstaller.
ArchiveError(b) ==
    /\ ~crashed
    /\ Running(b)
    /\ builds' = [builds EXCEPT ![b].pc = "failed", ![b].result = FailedResult]
    /\ last' = Call("generateInstaller.return", builds[b].projectId, <<>>, FailedResult)
    /\ StoreUnchanged
    /\ UNCHANGED <<generatedInstallers, disk, crashed, platform>>

\* The output stream emits 'error' (the open or a write fails). No listener
\* is registered on it, so the event is thrown as an uncaught exception: the
\* process ends, and with it the store, the registry and every pending call.
\* Only the files stay.
OutputError(b) ==
    /\ ~crashed
    /\ Running(b)
    /\ crashed' = TRUE
    /\ builds' = <<>>
    /\ projects' = <<>>
    /\ generatedInstallers' = <<>>
    /\ created' = <<>>
    /\ UNCHANGED <<currentId, disk, platform, last>>

GetInstallerFilePath(fileId) ==
    /\ ~crashed
    /\ last' = Call("getInstallerFilePath", 0, fileId, InstallerFilePath(fileId))
    /\ StoreUnchanged
    /\ BuildUnchanged

\* Something outside the program removes a generated file.
ExternalRemove(path) ==
    /\ ~crashed
    /\ path \in DOMAIN disk
    /\ disk' = MapDelete(disk, path)
    /\ StoreUnchanged
    /\ UNCHANGED <<generatedInstallers, builds, crashed, platform, last>>

---------------------------------------------------------------------------
(* The request layer: registerRoutes *)

\* The requests a client sends: body and parameters as the route hands them
\* to the storage.
Requests ==
    { [kind |-> "create", id |-> 0,
       arg |-> [name |-> <<"a", " ">>, version |-> "1.0", publisher |-> "Acme",
                description |-> "", defaultInstallPath |-> "/opt/demo",
                compressionLevel |-> 6, files |-> <<F1>>]],
      [kind |-> "update", id |-> 1, arg |-> [name |-> <<"a", "_">>]],
      [kind |-> "update", id |-> 1, arg |-> [version |-> "2.0"]],
      [kind |-> "addFiles", id |-> 1, arg |-> [files |-> <<F2>>]],
      [kind |-> "removeFile", id |-> 1, arg |-> [fileId |-> "f1"]],
      [kind |-> "delete", id |-> 1, arg |-> <<>>] }

NoRequests == [r \in Requests |-> 0]

RECURSIVE CountOver(_, _)
CountOver(bag, rs) ==
    IF rs = {} THEN 0
    ELSE LET r == CHOOSE x \in rs : TRUE
         IN  bag[r] + CountOver(bag, rs \ {r})

\* The number of requests in flight.
InFlightCount == CountOver(inflight, Requests)

RequestsUnchanged == UNCHANGED <<inflight, applied, client>>

\* A request reaches the server; its handler runs later, when the event loop
\* gets to it, and other requests may arrive or be handled before.
ReceiveRequest(r) ==
    /\ ~crashed
    /\ InFlightCount + Len(applied) < MaxRequests
    /\ inflight' = [inflight EXCEPT ![r] = @ + 1]
    /\ UNCHANGED <<applied, client>>
    /\ StoreUnchanged
    /\ BuildUnchanged
    /\ UNCHANGED last

\* The storage method a route handler calls. The method has no await, so it
\* runs to its end inside the handler's first synchronous stretch.
Dispatch(r) ==
    CASE r.kind = "create" -> CreateInstallerProject(r.arg)
      [] r.kind = "update" -> UpdateInstallerProject(r.id, r.arg)
      [] r.kind = "addFiles" -> AddFilesToProject(r.id, r.arg.files)
      [] r.kind = "removeFile" -> RemoveFileFromProject(r.id, r.arg.fileId)
      [] r.kind = "delete" -> DeleteInstallerProject(r.id)

\* The entry of the history for a handled request: the request and the number
\* of other requests that were in flight when its handler ran.
Handled(r) == [req |-> r, others |-> InFlightCount - 1]

\* The store after the first n requests of a history, applied one at a time
\* to the empty store.
ApplyRequest(st, r) ==
    CASE r.kind = "create" ->
            [projects |-> MapSet(st.projects, st.currentId, NewProject(r.arg, st.currentId)),
             currentId |-> st.currentId + 1]
      [] r.kind = "update" ->
            IF r.id \notin DOMAIN st.projects THEN st
            ELSE [st EXCEPT !.projects =
                     MapSet(@, r.id, MergeProject(st.projects[r.id], r.arg))]
      [] r.kind = "addFiles" ->
            IF r.id \notin DOMAIN st.projects THEN st
            ELSE [st EXCEPT !.projects =
                     MapSet(@, r.id, [st.projects[r.id] EXCEPT
                         !.files = UpdatedFilesAfterAdd(@, r.arg.files)])]
      [] r.kind = "removeFile" ->
            IF r.id \notin DOMAIN st.projects THEN st
            ELSE [st EXCEPT !.projects =
                     MapSet(@, r.id, [st.projects[r.id] EXCEPT
                         !.files = UpdatedFilesAfterRemove(@, r.arg.fileId)])]
      [] r.kind = "delete" -> [st EXCEPT !.projects = MapDelete(@, r.id)]

RECURSIVE Replay(_, _)
Replay(history, n) ==
    IF n = 0 THEN [projects |-> <<>>, currentId |-> 1]
    ELSE ApplyRequest(Replay(history, n - 1), history[n].req)

\* A handler that merges an update over the record it read before the
\* mutation that ran last.
HandleRequestStale(r) ==
    /\ ~crashed
    /\ inflight[r] > 0
    /\ LET stale == Replay(applied, IF Len(applied) = 0 THEN 0 ELSE Len(applied) - 1).projects
       IN  IF r.kind = "update" /\ r.id \in DOMAIN projects /\ r.id \in DOMAIN stale
           THEN /\ projects' = MapSet(projects, r.id, MergeProject(stale[r.id], r.arg))
                /\ UNCHANGED <<currentId, created, last>>
                /\ BuildUnchanged
           ELSE Dispatch(r)
    /\ inflight' = [inflight EXCEPT ![r] = @ - 1]
    /\ applied' = Append(applied, Handled(r))
    /\ UNCHANGED client

\* The handler of a request runs: it calls the storage method at once.
HandleRequest(r) ==
    /\ ~crashed
    /\ inflight[r] > 0
    /\ Dispatch(r)
    /\ inflight' = [inflight EXCEPT ![r] = @ - 1]
    /\ applied' = Append(applied, Handled(r))
    /\ UNCHANGED client

---------------------------------------------------------------------------
(* The builder page *)

\* The route parameter :id of the page.
PageProjectId == 1

\* What the user submits in the Compression Settings and the Installer
\* Settings forms, and what the user drops on the file zone.
ClientLevels == {9}
SettingsForms == {[name |-> <<"b">>, version |-> "2.0"]}
ClientFiles == {<<F2>>}
ClientFileIds == {"f2"}

\* A save started by the Save or the Build button carries no form.
NoForm == [none |-> TRUE]

\* useState(null), useState([]), useState(null): the context and page state
\* after the first render. flows holds one record per save or build the user
\* started; touched tells whether the user added or removed a file; download
\* is the id of the last download opened.
InitClient ==
    [currentProject |-> Undefined, selectedFiles |-> <<>>, generatedFileId |-> Undefined,
     flows |-> <<>>, touched |-> FALSE, download |-> Undefined]

\* addFiles: [...prevFiles, ...files.filter(file => !existingIds.has(file.id))]
AddFiles(prevFiles, files) ==
    LET existingIds == {prevFiles[i].id : i \in 1..Len(prevFiles)}
        IsNew(file) == file.id \notin existingIds
    IN  prevFiles \o SelectSeq(files, IsNew)

\* removeFile: prevFiles.filter(file => file.id !== fileId)
RemoveFile(prevFiles, fileId) ==
    LET Other(file) == file.id # fileId
    IN  SelectSeq(prevFiles, Other)

\* handleSaveProject: { ...currentProject, files: selectedFiles }, with the
\* currentProject and selectedFiles of the render the handler was created in.
SaveBody(currentProject, selectedFiles) ==
    [f \in (DOMAIN currentProject) \cup {"files"} |->
        IF f = "files" THEN selectedFiles ELSE currentProject[f]]

\* A save or build the user starts: the PATCH is sent at once.
NewFlow(kind, form) ==
    [kind |-> kind, pc |-> "patch", id |-> client.currentProject.id,
     body |-> SaveBody(client.currentProject, client.selectedFiles),
     form |-> form, touched |-> client.touched,
     saveReply |-> Pending, b |-> 0, buildReply |-> Pending]

\* The response of a route that answers with a status other than 2xx.
ErrorReply(status, message) == [status |-> status, message |-> message]

\* apiRequest rejects when the response is not 2xx.
ApiRequestThrows(reply) == "status" \in DOMAIN reply

\* A build handler that sends the build whatever became of the save.
AfterSaveNotAwaited(kind, threw) ==
    IF kind = "build" THEN "post"
    ELSE IF threw THEN "saveFailed" ELSE "saved"

\* handleBuildInstaller: await handleSaveProject(), then the build mutation;
\* a rejected save ends the handler. handleSaveProject alone ends after it.
AfterSave(kind, threw) ==
    IF threw THEN "saveFailed"
    ELSE IF kind = "build" THEN "post" ELSE "saved"

UpdatePending ==
    \E i \in DOMAIN client.flows : client.flows[i].pc \in {"patch", "patched"}

BuildPending ==
    \E i \in DOMAIN client.flows : client.flows[i].pc \in {"post", "building"}

ServerUnchanged ==
    /\ StoreUnchanged
    /\ BuildUnchanged
    /\ UNCHANGED <<last, inflight, applied>>

\* useQuery of /api/projects/:id and the effect that puts the project into
\* the context.
OpenProject ==
    /\ ~crashed
    /\ client.currentProject = Undefined
    /\ PageProjectId \in DOMAIN projects
    /\ client' = [client EXCEPT !.currentProject = projects[PageProjectId]]
    /\ ServerUnchanged

\* The user drops files on the file zone.
DropFiles(files) ==
    /\ client' = [client EXCEPT !.selectedFiles = AddFiles(@, files), !.touched = TRUE]
    /\ ServerUnchanged

\* The user removes a file from the list.
RemoveSelectedFile(fileId) ==
    /\ client.selectedFiles # <<>>
    /\ client' = [client EXCEPT !.selectedFiles = RemoveFile(@, fileId), !.touched = TRUE]
    /\ ServerUnchanged

\* onSubmit of a settings form for an existing project:
\* setCurrentProject({ ...currentProject, ...data }); await onSave().
\* onSave is the handleSaveProject of the render the form was drawn in, so the
\* PATCH body is built from the project as it was before setCurrentProject.
SubmitForm(data) ==
    /\ client.currentProject # Undefined
    /\ Len(client.flows) < MaxFlows
    /\ client' = [client EXCEPT !.currentProject = MergeProject(@, data),
                                !.flows = Append(@, NewFlow("save", data))]
    /\ ServerUnchanged

\* The Save button (disabled while the update mutation is pending).
ClickSave ==
    /\ client.currentProject # Undefined
    /\ ~UpdatePending
    /\ Len(client.flows) < MaxFlows
    /\ client' = [client EXCEPT !.flows = Append(@, NewFlow("save", NoForm))]
    /\ ServerUnchanged

\* The Build button (shown while there is no generatedFileId, disabled while
\* the build mutation is pending): handleBuildInstaller starts with the save.
ClickBuild ==
    /\ client.currentProject # Undefined
    /\ client.generatedFileId = Undefined
    /\ ~BuildPending
    /\ Len(client.flows) < MaxFlows
    /\ client' = [client EXCEPT !.flows = Append(@, NewFlow("build", NoForm))]
    /\ ServerUnchanged

\* PATCH /api/projects/:id: 404 when the project is not there, else the
\* updated project.
PatchHandled(i) ==
    /\ client.flows[i].pc = "patch"
    /\ UpdateInstallerProject(client.flows[i].id, client.flows[i].body)
    /\ client' = [client EXCEPT
           !.flows[i].pc = "patched",
           !.flows[i].saveReply =
               IF client.flows[i].id \in DOMAIN projects
               THEN MergeProject(projects[client.flows[i].id], client.flows[i].body)
               ELSE ErrorReply(404, "Project not found")]
    /\ UNCHANGED <<inflight, applied>>

\* The update mutation settles: onSuccess puts the response into the context,
\* onError only shows a toast.
SaveSettled(i) ==
    /\ client.flows[i].pc = "patched"
    /\ LET flow == client.flows[i]
           threw == ApiRequestThrows(flow.saveReply)
       IN  client' = [client EXCEPT
               !.currentProject = IF threw THEN @ ELSE flow.saveReply,
               !.flows[i].pc = AfterSave(flow.kind, threw)]
    /\ ServerUnchanged

\* POST /api/projects/:id/build reaches the server: generateInstaller runs up
\* to its await.
BuildHandled(i, now, rand) ==
    /\ client.flows[i].pc = "post"
    /\ GenerateInstaller(client.flows[i].id, now, rand)
    /\ client' = [client EXCEPT
           !.flows[i].pc = "building",
           !.flows[i].b = IF client.flows[i].id \in DOMAIN projects
                             THEN Len(builds) + 1 ELSE 0]
    /\ UNCHANGED <<inflight, applied>>

\* The route answers once generateInstaller has returned (400 when the result
\* is not a success), and the build mutation settles: onSuccess keeps the
\* fileId, onError resets it.
BuildSettled(i) ==
    /\ ~crashed
    /\ client.flows[i].pc = "building"
    /\ LET flow == client.flows[i]
       IN  /\ flow.b # 0 => (flow.b \in DOMAIN builds /\ builds[flow.b].result # Pending)
           /\ LET result == IF flow.b = 0 THEN NotFoundResult ELSE builds[flow.b].result
                  reply == IF result.success THEN result ELSE ErrorReply(400, result.error)
              IN  client' = [client EXCEPT
                      !.generatedFileId =
                          IF ApiRequestThrows(reply) THEN Undefined ELSE reply.fileId,
                      !.flows[i].pc =
                          IF ApiRequestThrows(reply) THEN "buildFailed" ELSE "built",
                      !.flows[i].buildReply = reply]
    /\ ServerUnchanged

\* The Download button (shown while there is a generatedFileId) opens
\* /api/download/<generatedFileId>.
ClickDownload ==
    /\ client.generatedFileId # Undefined
    /\ client' = [client EXCEPT !.download = client.generatedFileId]
    /\ ServerUnchanged

---------------------------------------------------------------------------
(* Specifications *)

\* The host values the build tells apart, and one it does not know.
Platforms == {"linux", "darwin", "win32", "freebsd"}

InitMemory ==
    /\ projects = <<>>
    /\ currentId = 1
    /\ generatedInstallers = <<>>
    /\ disk = <<>>
    /\ builds = <<>>
    /\ crashed = FALSE
    /\ created = <<>>
    /\ inflight = NoRequests
    /\ applied = <<>>
    /\ client = InitClient

InitState == InitMemory /\ platform \in {"linux"}

\* Call tracing on.
InitCalls == InitState /\ last = NoCall

\* Call tracing on, with the call before.
InitPairs == InitState /\ last = NoCallPair

\* Call tracing off.
Init == InitState /\ last = Untraced

NextStore ==
    \/ \E project \in StoreInserts : CreateInstallerProject(project) /\ RequestsUnchanged
    \/ \E id \in ProjectIds, u \in StoreUpdates : UpdateInstallerProject(id, u) /\ RequestsUnchanged
    \/ \E id \in ProjectIds : DeleteInstallerProject(id) /\ RequestsUnchanged
    \/ \E id \in ProjectIds, files \in StoreFileLists : AddFilesToProject(id, files) /\ RequestsUnchanged
    \/ \E id \in ProjectIds, fileId \in StoreFileIds : RemoveFileFromProject(id, fileId) /\ RequestsUnchanged

SpecStore == InitCalls /\ [][NextStore]_vars

Next ==
    \/ \E project \in BuildInserts : CreateInstallerProject(project) /\ RequestsUnchanged
    \/ \E id \in ProjectIds, u \in BuildUpdates : UpdateInstallerProject(id, u) /\ RequestsUnchanged
    \/ \E id \in ProjectIds : DeleteInstallerProject(id) /\ RequestsUnchanged
    \/ \E id \in ProjectIds, files \in BuildFileLists : AddFilesToProject(id, files) /\ RequestsUnchanged
    \/ \E id \in ProjectIds, fileId \in BuildFileIds : RemoveFileFromProject(id, fileId) /\ RequestsUnchanged
    \/ \E id \in ProjectIds, now \in Times, rand \in Rands : GenerateInstaller(id, now, rand) /\ RequestsUnchanged
    \/ \E b \in DOMAIN builds : StreamOpen(b) /\ RequestsUnchanged
    \/ \E b \in DOMAIN builds : StreamWrite(b) /\ RequestsUnchanged
    \/ \E b \in DOMAIN builds : StreamClose(b) /\ RequestsUnchanged
    \/ \E b \in DOMAIN builds : ArchiveError(b) /\ RequestsUnchanged
    \/ \E b \in DOMAIN builds : OutputError(b) /\ RequestsUnchanged

Spec == Init /\ [][Next]_vars

NextCalls ==
    \/ \E project \in CallInserts : CreateInstallerProject(project) /\ RequestsUnchanged
    \/ \E id \in ProjectIds, now \in Times, rand \in Rands : GenerateInstaller(id, now, rand) /\ RequestsUnchanged
    \/ \E b \in DOMAIN builds : StreamOpen(b) /\ RequestsUnchanged
    \/ \E b \in DOMAIN builds : StreamWrite(b) /\ RequestsUnchanged
    \/ \E b \in DOMAIN builds : StreamClose(b) /\ RequestsUnchanged
    \/ \E b \in DOMAIN builds : ArchiveError(b) /\ RequestsUnchanged
    \/ \E b \in DOMAIN builds : OutputError(b) /\ RequestsUnchanged
    \/ \E fileId \in AllFileIds : GetInstallerFilePath(fileId) /\ RequestsUnchanged
    \/ \E path \in DOMAIN disk : ExternalRemove(path) /\ RequestsUnchanged

SpecCalls == InitCalls /\ [][NextCalls]_vars

NextFiles ==
    \/ \E project \in FilesInserts : CreateInstallerProject(project) /\ RequestsUnchanged
    \/ \E id \in ProjectIds : DeleteInstallerProject(id) /\ RequestsUnchanged
    \/ \E id \in FilesProjectIds, files \in FilesFileLists : AddFilesToProject(id, files) /\ RequestsUnchanged
    \/ \E id \in FilesProjectIds, fileId \in FilesFileIds : RemoveFileFromProject(id, fileId) /\ RequestsUnchanged

SpecFiles == InitPairs /\ [][NextFiles]_vars

\* Any host, call tracing off.
InitInputs == InitMemory /\ platform \in Platforms /\ last = Untraced

NextInputs ==
    \/ \E project \in InputInserts : CreateInstallerProject(project) /\ RequestsUnchanged
    \/ \E id \in InputProjectIds, now \in Times, rand \in Rands :
          GenerateInstaller(id, now, rand) /\ RequestsUnchanged
    \/ \E b \in DOMAIN builds : StreamOpen(b) /\ RequestsUnchanged
    \/ \E b \in DOMAIN builds : StreamWrite(b) /\ RequestsUnchanged
    \/ \E b \in DOMAIN builds : StreamClose(b) /\ RequestsUnchanged
    \/ \E b \in DOMAIN builds : ArchiveError(b) /\ RequestsUnchanged
    \/ \E b \in DOMAIN builds : OutputError(b) /\ RequestsUnchanged

SpecInputs == InitInputs /\ [][NextInputs]_vars

\* The builder page against the server: one project, created and deleted
\* from elsewhere, and the saves and builds of the page.
NextClient ==
    \/ currentId = PageProjectId /\ CreateInstallerProject(InputBase) /\ RequestsUnchanged
    \/ DeleteInstallerProject(PageProjectId) /\ RequestsUnchanged
    \/ OpenProject
    \/ \E files \in ClientFiles : DropFiles(files)
    \/ \E fileId \in ClientFileIds : RemoveSelectedFile(fileId)
    \/ \E level \in ClientLevels : SubmitForm([compressionLevel |-> level])
    \/ \E data \in SettingsForms : SubmitForm(data)
    \/ ClickSave
    \/ ClickBuild
    \/ \E i \in DOMAIN client.flows : PatchHandled(i)
    \/ \E i \in DOMAIN client.flows : SaveSettled(i)
    \/ \E i \in DOMAIN client.flows, now \in Times : BuildHandled(i, now, MaxRand)
    \/ \E b \in DOMAIN builds : StreamOpen(b) /\ RequestsUnchanged
    \/ \E b \in DOMAIN builds : StreamWrite(b) /\ RequestsUnchanged
    \/ \E b \in DOMAIN builds : StreamClose(b) /\ RequestsUnchanged
    \/ \E b \in DOMAIN builds : ArchiveError(b) /\ RequestsUnchanged
    \/ \E b \in DOMAIN builds : OutputError(b) /\ RequestsUnchanged
    \/ \E i \in DOMAIN client.flows : BuildSettled(i)
    \/ ClickDownload

InitClientPage == InitMemory /\ platform = "linux" /\ last = Untraced

SpecClient == InitClientPage /\ [][NextClient]_vars

NextRequests ==
    \/ \E r \in Requests : ReceiveRequest(r)
    \/ \E r \in Requests : HandleRequest(r)

SpecRequests == Init /\ [][NextRequests]_vars

---------------------------------------------------------------------------
(* Claims *)

Completes(b) ==
    /\ builds[b].pc = "writing"
    /\ b \in DOMAIN builds'
    /\ builds'[b].pc = "done"

\* C1: every build writes and registers a path of its own, different from
\* the path of every other build, finished or in flight.
C1_PathsDistinct ==
    \A b1 \in DOMAIN builds : \A b2 \in DOMAIN builds :
        b1 # b2 => builds[b1].filePath # builds[b2].filePath

\* C2: every chunk a build has written is the chunk rendered from the project
\* record as it was when generateInstaller was invoked, whatever update,
\* addFiles, removeFile or delete of the same id ran in between.
C2_SnapshotConsistent ==
    \A b \in DOMAIN builds :
        /\ Len(builds[b].wrote) = builds[b].written
        /\ \A k \in 1..Len(builds[b].wrote) :
              builds[b].wrote[k] = Chunks(ArchiveMembers(builds[b].invoked))[k]
        /\ builds[b].pc = "done" =>
              builds[b].wrote = Chunks(ArchiveMembers(builds[b].invoked))

\* A build has written its first chunk, has one more to write, and the stored
\* project has since been changed or deleted.
C2_Witness ==
    \E b \in DOMAIN builds :
        /\ builds[b].pc = "writing"
        /\ builds[b].written = 1
        /\ MapGet(projects, builds[b].projectId) # builds[b].invoked

\* The file a build has opened and not written to the end.
PartialLeftBy(b) ==
    /\ builds[b].pc = "writing"
    /\ builds[b].written < Len(Chunks(builds[b].queue))
    /\ builds[b].filePath \in DOMAIN disk

\* C3: when a build fails and returns, the call returns the generic failure,
\* the registry is unchanged, and no artifact id resolves to the file the
\* build left partially written.
C3_FailureLeavesNothingResolvable ==
    [][\A b \in DOMAIN builds :
          (Running(b) /\ ~crashed' /\ builds'[b].pc = "failed") =>
              /\ builds'[b].result = FailedResult
              /\ generatedInstallers' = generatedInstallers
              /\ PartialLeftBy(b) =>
                    \A a \in DOMAIN generatedInstallers :
                        InstallerFilePath(a) # builds[b].filePath]_vars

\* C4: a running build goes on running or returns (success or failure); an
\* error of the output stream never ends the process.
C4_BuildReturnsOrRuns ==
    [][\A b \in DOMAIN builds :
          Running(b) =>
              /\ ~crashed'
              /\ b \in DOMAIN builds'
              /\ \/ Running(b)'
                 \/ builds'[b].pc = "done" /\ builds'[b].result.success
                 \/ builds'[b].pc = "failed" /\ builds'[b].result = FailedResult]_vars

C6_LookupChecksFile ==
    [][(last'.seq # last.seq /\ last'.op = "getInstallerFilePath") =>
          /\ IF /\ last'.arg \in DOMAIN generatedInstallers
                /\ generatedInstallers[last'.arg].filePath \in DOMAIN disk
             THEN last'.ret = generatedInstallers[last'.arg].filePath
             ELSE last'.ret = Undefined
          /\ UNCHANGED <<generatedInstallers, projects, currentId, disk, builds>>]_vars

\* A lookup of the id of a finished build returned undefined: the record
\* existed (the return of the build precedes the lookup), the file did not.
C6_Witness ==
    /\ last.op = "getInstallerFilePath"
    /\ last.ret = Undefined
    /\ \E b \in DOMAIN builds : builds[b].pc = "done" /\ builds[b].fileId = last.arg

\* C7: generateInstaller on an id that is not in the store returns the
\* not-found failure and changes neither files, registry, store nor builds.
C7_MissingProjectNoEffect ==
    [][(last'.seq # last.seq /\ last'.op = "generateInstaller"
            /\ last'.id \notin DOMAIN projects) =>
          /\ last'.ret = NotFoundResult
          /\ UNCHANGED <<generatedInstallers, disk, builds, projects, currentId>>]_vars

\* generateInstaller was refused for a missing id while another project and
\* an artifact exist.
C7_Witness ==
    /\ last.op = "generateInstaller"
    /\ last.ret = NotFoundResult
    /\ last.id \notin DOMAIN projects
    /\ DOMAIN projects # {}
    /\ DOMAIN generatedInstallers # {}

\* C8: every record stored under key k has identifier k.
C8_IdImmutable ==
    \A k \in DOMAIN projects : projects[k].id = k

\* C9: the identifiers returned by createInstallerProject are strictly
\* increasing in the order of the calls, whatever was deleted in between.
C9_IdsStrictlyIncrease ==
    /\ \A i \in 1..Len(created) : \A j \in 1..Len(created) :
          i < j => created[i].id < created[j].id
    /\ (last.op = "createInstallerProject") =>
          /\ Len(created) > 0
          /\ last.ret.id = created[Len(created)].id

\* A project was created after an earlier one had been deleted.
C9_Witness ==
    \E i \in 1..Len(created) : \E j \in 1..Len(created) :
        i < j /\ created[i].id \notin created[j].live

\* C10: an update of an existing project leaves a record whose fields are
\* those of the partial object where it has them and those of the record
\* before elsewhere, returns that record, and changes no other project.
C10_UpdateMergesShallow ==
    [][(last'.seq # last.seq /\ last'.op = "updateInstallerProject"
            /\ last'.id \in DOMAIN projects) =>
          LET id == last'.id
              u == last'.arg
              pre == projects[id]
              post == MapGet(projects', id)
          IN  /\ DOMAIN projects' = DOMAIN projects
              /\ DOMAIN post = (DOMAIN pre) \cup (DOMAIN u)
              /\ \A f \in DOMAIN post :
                    post[f] = IF f \in DOMAIN u THEN u[f] ELSE pre[f]
              /\ last'.ret = post
              /\ \A o \in (DOMAIN projects) \ {id} : projects'[o] = projects[o]]_vars

\* An update of the version alone was applied to a project whose name had
\* been changed before, next to another project.
C10_Witness ==
    /\ last.op = "updateInstallerProject"
    /\ last.arg = [version |-> "2.0"]
    /\ last.id \in DOMAIN projects
    /\ projects[last.id].name = <<"a", "_">>
    /\ projects[last.id].version = "2.0"
    /\ Cardinality(DOMAIN projects) >= 2

\* A storage call has just returned.
Returned(op) == last'.seq # last.seq /\ last'.op = op

\* C11: updateInstallerProject, addFilesToProject and removeFileFromProject
\* on an id that is not in the store return undefined and leave every record
\* and the id counter as they were; no record appears for that id.
C11_NotFoundLeavesStore ==
    [][((Returned("updateInstallerProject") \/ Returned("addFilesToProject")
            \/ Returned("removeFileFromProject"))
         /\ last'.id \notin DOMAIN projects) =>
          /\ last'.ret = Undefined
          /\ projects' = projects
          /\ currentId' = currentId]_vars

\* An update with a non-empty body was refused for an id that had been handed
\* out and deleted, while another project is stored.
C11_Witness ==
    /\ last.op = "updateInstallerProject"
    /\ last.arg = [version |-> "2.0"]
    /\ last.ret = Undefined
    /\ last.id < currentId
    /\ last.id \notin DOMAIN projects
    /\ DOMAIN projects # {}

\* C12: when addFilesToProject(id, files) on an existing project is followed
\* at once by the same call, the second call returns and stores the same
\* top-level list as the first.
C12_AddFilesIdempotent ==
    [][(Returned("addFilesToProject") /\ last.op = "addFilesToProject"
            /\ last'.id = last.id /\ last'.arg = last.arg
            /\ last.ret # Undefined) =>
          /\ last'.ret # Undefined
          /\ last'.ret.files = last.ret.files
          /\ projects'[last'.id].files = projects[last.id].files]_vars

\* The list <<F2, F2>> was added twice in a row to a project that held F1.
C12_Witness ==
    /\ last.op = "addFilesToProject"
    /\ last.prev.op = "addFilesToProject"
    /\ last.prev.id = last.id
    /\ last.arg = <<F2, F2>>
    /\ last.prev.arg = <<F2, F2>>
    /\ last.ret # Undefined
    /\ last.ret.files = <<F1, F2, F2>>

\* The top-level identifiers of a list are pairwise distinct.
DistinctIds(files) ==
    \A i \in 1..Len(files) : \A j \in 1..Len(files) :
        i # j => files[i].id # files[j].id

\* C13: addFilesToProject on a project whose top-level identifiers are
\* pairwise distinct leaves them pairwise distinct, whatever the incoming list.
C13_AddFilesKeepsIdsDistinct ==
    [][(Returned("addFilesToProject") /\ last'.id \in DOMAIN projects
            /\ DistinctIds(projects[last'.id].files)) =>
          DistinctIds(projects'[last'.id].files)]_vars

\* The nodes of a list, from index i on, whose identifier is not in ids.
RECURSIVE NodesNotIn(_, _, _)
NodesNotIn(files, ids, i) ==
    IF i > Len(files) THEN <<>>
    ELSE (IF files[i].id \in ids THEN <<>> ELSE <<files[i]>>) \o NodesNotIn(files, ids, i + 1)

\* C14: addFilesToProject on an existing project stores and returns the
\* existing list, unchanged and in order, followed by the incoming nodes whose
\* identifier is not among the existing top-level nodes, in incoming order;
\* the other fields and the other projects stay as they were.
C14_ExistingNodeWins ==
    [][(Returned("addFilesToProject") /\ last'.id \in DOMAIN projects) =>
          LET id == last'.id
              pre == projects[id]
              post == MapGet(projects', id)
              ids == {pre.files[i].id : i \in 1..Len(pre.files)}
          IN  /\ post # Undefined
              /\ post.files = pre.files \o NodesNotIn(last'.arg, ids, 1)
              /\ SubSeq(post.files, 1, Len(pre.files)) = pre.files
              /\ DOMAIN post = DOMAIN pre
              /\ \A f \in (DOMAIN pre) \ {"files"} : post[f] = pre[f]
              /\ last'.ret = post
              /\ \A o \in (DOMAIN projects) \ {id} : MapGet(projects', o) = projects[o]]_vars

\* <<F1b, F2>> was added to a project that held exactly F1: the stored F1 was
\* kept in place of F1b, which has its identifier, and F2 was appended.
C14_Witness ==
    /\ last.op = "addFilesToProject"
    /\ last.arg = <<F1b, F2>>
    /\ last.prev.op = "createInstallerProject"
    /\ last.prev.id = last.id
    /\ last.prev.ret.files = <<F1>>
    /\ last.ret # Undefined
    /\ last.ret.files = <<F1, F2>>

\* C15: removeFileFromProject on an existing project leaves no top-level node
\* with that identifier, keeps every other top-level node unchanged and in
\* order, keeps the other fields and the other projects, and returns the
\* stored record, also when no top-level node matched.
C15_RemoveFileFrame ==
    [][(Returned("removeFileFromProject") /\ last'.id \in DOMAIN projects) =>
          LET id == last'.id
              fileId == last'.arg[1]
              pre == projects[id]
              post == MapGet(projects', id)
          IN  /\ post # Undefined
              /\ \A i \in 1..Len(post.files) : post.files[i].id # fileId
              /\ post.files = NodesNotIn(pre.files, {fileId}, 1)
              /\ DOMAIN post = DOMAIN pre
              /\ \A f \in (DOMAIN pre) \ {"files"} : post[f] = pre[f]
              /\ last'.ret = post
              /\ (\A i \in 1..Len(pre.files) : pre.files[i].id # fileId) => last'.ret = pre
              /\ \A o \in (DOMAIN projects) \ {id} : MapGet(projects', o) = projects[o]]_vars

\* "f2" was removed from a project that held F1 and the directory D3, whose
\* child alone carries "f2": the project came back unchanged.
C15_Witness ==
    /\ last.op = "removeFileFromProject"
    /\ last.arg = <<"f2">>
    /\ last.prev.op = "addFilesToProject"
    /\ last.prev.id = last.id
    /\ last.prev.ret # Undefined
    /\ last.prev.ret.files = <<F1, D3>>
    /\ last.ret = last.prev.ret

\* C16: deleteInstallerProject returns true exactly when the id was stored;
\* afterwards the id is not found, the other records are as before, and a
\* delete of the same id right after returns false.
C16_DeleteReportsExistence ==
    [][Returned("deleteInstallerProject") =>
          LET id == last'.id
          IN  /\ last'.ret = [deleted |-> id \in DOMAIN projects]
              /\ MapGet(projects', id) = Undefined
              /\ DOMAIN projects' = (DOMAIN projects) \ {id}
              /\ \A o \in (DOMAIN projects) \ {id} : projects'[o] = projects[o]
              /\ (last.op = "deleteInstallerProject" /\ last.id = id) =>
                    last'.ret = [deleted |-> FALSE]]_vars

\* A project was deleted twice in a row, next to another project: the first
\* delete returned true, the second false.
C16_Witness ==
    /\ last.op = "deleteInstallerProject"
    /\ last.prev.op = "deleteInstallerProject"
    /\ last.prev.id = last.id
    /\ last.prev.ret = [deleted |-> TRUE]
    /\ last.ret = [deleted |-> FALSE]
    /\ DOMAIN projects # {}

\* A step of a build: it starts one, moves its stream, ends it or ends the
\* process.
BuildStep ==
    \/ builds' # builds
    \/ disk' # disk
    \/ generatedInstallers' # generatedInstallers
    \/ crashed' # crashed

\* C17: no step of a build, successful or failing, changes the set of stored
\* projects, a field of a stored project or the id counter.
C17_BuildLeavesStore ==
    [][BuildStep => (projects' = projects /\ currentId' = currentId)]_vars

\* The number of creates among the first n requests of the history.
RECURSIVE Creates(_)
Creates(n) ==
    IF n = 0 THEN 0
    ELSE Creates(n - 1) + (IF applied[n].req.kind = "create" THEN 1 ELSE 0)

\* The place in the history of the create that was handed the id.
CreatedAt(id) ==
    CHOOSE i \in 1..Len(applied) : applied[i].req.kind = "create" /\ Creates(i) = id

\* The requests of a kind handled for the id after its create.
Later(kind, id) ==
    {i \in 1..Len(applied) :
        i > CreatedAt(id) /\ applied[i].req.kind = kind /\ applied[i].req.id = id}

Newest(places) == CHOOSE i \in places : \A j \in places : j <= i

RECURSIVE Flat(_)
Flat(chunks) == IF chunks = <<>> THEN <<>> ELSE Head(chunks) \o Flat(Tail(chunks))

MemberNames(b) == [i \in 1..Len(builds[b].queue) |-> builds[b].queue[i].name]

\* C20 as stated: a completed build of a project with zero files returned
\* success and wrote exactly four members, the readme listing no file.
C20_ZeroFilesFourMembers ==
    \A b \in DOMAIN builds :
        (builds[b].invoked.files = <<>> /\ builds[b].pc = "done") =>
            /\ builds[b].result.success
            /\ Len(Flat(builds[b].wrote)) = 4
            /\ builds[b].queue[1].body.files = <<>>

\* C20 amended: a build of a project with zero files renders exactly the five
\* synthesized members, in order, the readme listing no file; when it
\* completes it has returned success and written exactly these five.
C20_ZeroFilesFiveMembers ==
    \A b \in DOMAIN builds :
        builds[b].invoked.files = <<>> =>
            /\ MemberNames(b) =
                  IF platform = "win32"
                  THEN <<"README.txt", "install.bat", "uninstall.bat",
                         "installer.info", "project.json">>
                  ELSE <<"README.txt", "install.sh", "uninstall.sh",
                         "installer.info", "project.json">>
            /\ builds[b].queue[1].body.files = <<>>
            /\ builds[b].queue[5].body.json.files = <<>>
            /\ builds[b].pc = "done" =>
                  /\ builds[b].result.success
                  /\ Len(Flat(builds[b].wrote)) = 5
                  /\ Flat(builds[b].wrote) = builds[b].queue

\* A build of a project whose file list had been emptied has completed.
C20_Witness ==
    \E b \in DOMAIN builds :
        /\ builds[b].invoked.files = <<>>
        /\ builds[b].pc = "done"
        /\ builds[b].fileId \in DOMAIN generatedInstallers


\* C21: every path a build has written or registered is a file directly
\* inside the output directory tmp/installer-builder, whatever the name and
\* the version of the project.
C21_PathInsideOutputDir ==
    /\ \A path \in DOMAIN disk : Dirname(path) = OutputDir
    /\ \A a \in DOMAIN generatedInstallers :
          Dirname(generatedInstallers[a].filePath) = OutputDir

\* The level the archive is meant to be opened with.
ValidLevel(project) ==
    IF "compressionLevel" \in DOMAIN project /\ project.compressionLevel \in 0..9
    THEN project.compressionLevel
    ELSE 6

\* C22: the archive is opened with the project's compression level when it
\* is set and in 0..9, zero included, and with 6 exactly when it is unset or
\* outside 0..9; the level handed to the archiver is always in 0..9.
C22_LevelInRange ==
    \A b \in DOMAIN builds :
        /\ builds[b].level = ValidLevel(builds[b].invoked)
        /\ builds[b].level \in 0..9

\* C23: the artifact id a build returned resolves to the archive of that
\* build: whenever the lookup of the id resolves, the file holds the members
\* rendered from the project as it was when that build was invoked.
C23_ArtifactOfItsBuild ==
    \A b \in DOMAIN builds :
        (builds[b].pc = "done" /\ builds[b].result.success
            /\ InstallerFilePath(builds[b].result.fileId) # Undefined) =>
            disk[InstallerFilePath(builds[b].result.fileId)].data =
                Chunks(ArchiveMembers(builds[b].invoked))

\* C24: on every host platform the install and uninstall members are shell
\* scripts named .sh (mode 0755) next to a .dmg or .run archive, or batch
\* scripts named .bat next to a .exe archive, never one under the name of the
\* other; both carry the project's name and install path, the install script
\* the version too.
C24_ScriptsMatchPlatform ==
    \A b \in DOMAIN builds :
        LET install == builds[b].queue[2]
            uninstall == builds[b].queue[3]
            project == builds[b].invoked
        IN  /\ \/ /\ install.name = "install.sh" /\ uninstall.name = "uninstall.sh"
                  /\ install.mode = 493 /\ uninstall.mode = 493
                  /\ install.body.flavor = "bash" /\ uninstall.body.flavor = "bash"
                  /\ builds[b].fileName.ext \in {".dmg", ".run"}
               \/ /\ install.name = "install.bat" /\ uninstall.name = "uninstall.bat"
                  /\ install.body.flavor = "batch" /\ uninstall.body.flavor = "batch"
                  /\ builds[b].fileName.ext = ".exe"
            /\ install.body.name = project.name
            /\ install.body.version = project.version
            /\ install.body.installPath = project.defaultInstallPath
            /\ uninstall.body.name = project.name
            /\ uninstall.body.installPath = project.defaultInstallPath

\* Every node of a file tree, children included, parents first.
RECURSIVE AllNodes(_)
AllNodes(files) ==
    IF files = <<>> THEN <<>>
    ELSE LET node == Head(files)
         IN  <<node>>
                 \o (IF "children" \in DOMAIN node THEN AllNodes(node.children) ELSE <<>>)
                 \o AllNodes(Tail(files))

\* C25: the readme of a build lists every node of the project's file tree,
\* nested children at any depth included, each with its path and its
\* human-readable size, and no line for a node that is not in the tree.
C25_ReadmeListsEveryNode ==
    \A b \in DOMAIN builds :
        LET nodes == AllNodes(builds[b].invoked.files)
            lines == builds[b].queue[1].body.files
        IN  /\ Len(lines) = Len(nodes)
            /\ \A i \in 1..Len(nodes) :
                  lines[i] = [path |-> nodes[i].path, size |-> FormatFileSize(nodes[i].size)]

\* C26: the archive name is <base>-<version>-installer<ext>: base is the
\* project name, of the same length, with every character outside
\* [A-Za-z0-9_-] replaced by '_' and every other character kept; ext is .dmg
\* on darwin, .run on linux and .exe on any other host, whatever the
\* project's target platforms are.
C26_ArchiveName ==
    \A b \in DOMAIN builds :
        LET project == builds[b].invoked
            fileName == builds[b].fileName
            ext == CASE platform = "darwin" -> ".dmg"
                     [] platform = "linux" -> ".run"
                     [] OTHER -> ".exe"
        IN  /\ Len(fileName.base) = Len(project.name)
            /\ \A i \in 1..Len(project.name) :
                  /\ fileName.base[i] \in SafeChars
                  /\ project.name[i] \in SafeChars => fileName.base[i] = project.name[i]
                  /\ project.name[i] \notin SafeChars => fileName.base[i] = "_"
            /\ FileNameChars(fileName) =
                  fileName.base \o <<"-">> \o VersionChars(project.version)
                      \o <<"-", "installer", ext>>
            /\ builds[b].pc = "done" /\ builds[b].result.success =>
                  builds[b].result.filePath = fileName

\* On a win32 host a build of a project that targets linux only, and whose
\* name holds a separator and a dot, has returned its archive name.
C26_Witness ==
    \E b \in DOMAIN builds :
        /\ platform = "win32"
        /\ builds[b].invoked.targetPlatforms = <<"linux">>
        /\ builds[b].invoked.name = <<"/", ".">>
        /\ builds[b].fileName.base = <<"_", "_">>
        /\ builds[b].fileName.ext = ".exe"
        /\ builds[b].pc = "done"
        /\ builds[b].result.success
        /\ builds[b].result.filePath = builds[b].fileName

\* C27: the file name a successful build reports is the base name of the
\* path the lookup of the returned id resolves to (the name the download
\* route sends), as long as the registry record is the one this build wrote.
C27_ReportedNameIsBasename ==
    \A b \in DOMAIN builds :
        (/\ builds[b].pc = "done" /\ builds[b].result.success
         /\ InstallerFilePath(builds[b].result.fileId) = builds[b].filePath) =>
            Basename(InstallerFilePath(builds[b].result.fileId)) =
                FileNameChars(builds[b].result.filePath)


\* C28: a settings form submitted for an existing project is persisted: the
\* PATCH of the save it starts carries the submitted values, and when that
\* save completes the stored project and the page's currentProject hold them.
C28_SubmitPersists ==
    [][\A i \in DOMAIN client.flows :
          (/\ client.flows[i].form # NoForm
           /\ client.flows[i].pc = "patched"
           /\ client'.flows[i].pc = "saved") =>
              \A f \in DOMAIN client.flows[i].form :
                  /\ client.flows[i].body[f] = client.flows[i].form[f]
                  /\ client'.currentProject[f] = client.flows[i].form[f]
                  /\ client.flows[i].id \in DOMAIN projects' =>
                        projects'[client.flows[i].id][f] = client.flows[i].form[f]]_vars

\* C29: a save (alone or as the first step of a build) of an opened project
\* that has files on the server, started while the user had added or removed
\* no file, leaves the project's stored file list as it was.
C29_SaveKeepsFiles ==
    [][\A i \in DOMAIN client.flows :
          (/\ client.flows[i].pc = "patch"
           /\ client'.flows[i].pc = "patched"
           /\ ~client.flows[i].touched
           /\ client.flows[i].id \in DOMAIN projects
           /\ projects[client.flows[i].id].files # <<>>) =>
              projects'[client.flows[i].id].files = projects[client.flows[i].id].files]_vars

\* The flow is a build whose request has been sent.
BuildSent(flow) == flow.pc \in {"post", "building", "built", "buildFailed"}

\* The id is the fileId of a build response that was a success.
ReturnedByBuild(id) ==
    \E i \in DOMAIN client.flows :
        /\ client.flows[i].pc = "built"
        /\ client.flows[i].buildReply.success
        /\ client.flows[i].buildReply.fileId = id

=============================================================================
